---- MODULE Spec2Model ----
(***************************************************************************)
(* Model of buildbot_aws_sqs: SQSPollingService / SQSSource /              *)
(* SQSJsonSource (src/buildbot_aws_sqs/__init__.py).                       *)
(*                                                                         *)
(* One service instance polls one SQS queue through a twisted TimerService *)
(* (a LoopingCall around poll()).  A poll cycle is a chain of deferreds:   *)
(*   receive_message (worker thread)  ->  process_msg / msg_to_change      *)
(*   -> change_exists (db pool thread) -> addChange -> delete_message.     *)
(* The service is started once and stopped once by its parent, which is    *)
(* how buildbot's service manager drives a change source.                  *)
(*                                                                         *)
(* SentTimestamp values are kept below 2^31; when_timestamp is the exact   *)
(* quotient, kept as whole seconds plus a millisecond fraction.            *)
(***************************************************************************)
EXTENDS Integers, Sequences, FiniteSets, TLC

(* ------------------------------ bounds --------------------------------- *)

\* number of distinct messages producers may put on the queue
MaxMsgs == 2

\* number of poll() invocations explored
MaxPolls == 2

\* number of at-least-once duplicate deliveries of an already deleted message
MaxRedeliver == 1

\* number of poll() invocations explored over repeated startService calls
MaxLifecyclePolls == 5

(* --------------------------- configuration ----------------------------- *)

NONE == "<None>"

QueueUri == "http://sqs.example.com/queue"

OtherUri == "http://sqs.example.com/other"

Uris == {QueueUri, OtherUri}

Codebases == {NONE, "cb"}

DefaultPollInterval == 60

DefaultRegion == "eu-central-1"

PollIntervals == {3600, 20}

Regions == {"kuiper-central-1"}

Variants == {"SQSSource", "SQSJsonSource"}

IdNames == <<"aaaa", "bbbb", "cccc", "dddd">>

MessageIds == {IdNames[k] : k \in 1..MaxMsgs}

(* ----------------------- JSON values and bodies ------------------------ *)

NoFields == [k \in {} |-> ""]

\* the keyword arguments a constructor call can carry: uri always, each of
\* pollinterval, aws_region and codebase given or left out
AllKwargs ==
    {("uri" :> u) @@ p @@ r @@ c :
        u \in Uris,
        p \in {NoFields} \cup {"pollinterval" :> n : n \in PollIntervals},
        r \in {NoFields} \cup {"aws_region" :> x : x \in Regions},
        c \in {NoFields} \cup {"codebase" :> x : x \in Codebases \ {NONE}}}

\* constructor calls that leave pollinterval and aws_region at their defaults
ChangeKwargs == {kw \in AllKwargs : DOMAIN kw \subseteq {"uri", "codebase"}}

\* the constructor calls of the master's configuration for the one queue
HostKwargs == {kw \in ChangeKwargs : kw["uri"] = QueueUri}

SQSPollingService_fixed_interval(kw) ==
    [pollinterval |-> DefaultPollInterval,
     uri |-> kw["uri"],
     aws_region |-> IF "aws_region" \in DOMAIN kw THEN kw["aws_region"] ELSE DefaultRegion,
     default_codebase |-> IF "codebase" \in DOMAIN kw THEN kw["codebase"] ELSE NONE]

\* __init__: the attributes of the instance built from the keyword arguments
SQSPollingService(kw) ==
    [pollinterval |-> IF "pollinterval" \in DOMAIN kw
                      THEN kw["pollinterval"] ELSE DefaultPollInterval,
     uri |-> kw["uri"],
     aws_region |-> IF "aws_region" \in DOMAIN kw THEN kw["aws_region"] ELSE DefaultRegion,
     default_codebase |-> IF "codebase" \in DOMAIN kw THEN kw["codebase"] ELSE NONE]

\* a python value held in msg['Body']: the text as received (t = "str", not
\* yet parsed) or the result of json.loads
StrVal(s) == [t |-> "str", s |-> s, o |-> NoFields]

ObjVal(f) == [t |-> "dict", s |-> "", o |-> f]

OtherVal(kind, s) == [t |-> kind, s |-> s, o |-> NoFields]

BodyFooBar == "{\"foo\": \"bar\"}"

BodyFooBarCompact == "{\"foo\":\"bar\"}"

BodyOwnSqsBody == "{\"sqs_body\": \"x\"}"

BodyList == "[1]"

BodyNull == "null"

BodyString == "\"abc\""

BodyNumber == "1"

BodyGarbage == "not json"

Bodies ==
    {BodyFooBar, BodyFooBarCompact, BodyOwnSqsBody, BodyList, BodyNull, BodyString,
     BodyNumber, BodyGarbage}

\* json.loads raises ValueError on these texts
json_invalid(text) == text = BodyGarbage

\* json.loads(text) for the texts it accepts
json_loads(text) ==
    CASE text = BodyFooBar        -> ObjVal([foo |-> "bar"])
      [] text = BodyFooBarCompact -> ObjVal([foo |-> "bar"])
      [] text = BodyOwnSqsBody    -> ObjVal([sqs_body |-> "x"])
      [] text = BodyList          -> OtherVal("list", "[1]")
      [] text = BodyNull          -> OtherVal("NoneType", "null")
      [] text = BodyString        -> OtherVal("str", "abc")
      [] text = BodyNumber        -> OtherVal("int", "1")
      [] OTHER                    -> OtherVal("invalid", text)

\* json.dumps(value): default separators (", " and ": ")
json_dumps(v) ==
    CASE v.t = "dict" /\ v.o = [foo |-> "bar"]      -> BodyFooBar
      [] v.t = "dict" /\ v.o = [sqs_body |-> "x"]   -> BodyOwnSqsBody
      [] v.t = "str" /\ v.s = "abc"                  -> BodyString
      [] OTHER                                      -> v.s

(* ------------------------------ messages ------------------------------- *)

SentTimestamps == {920399, 1000}

\* every body with every enqueue timestamp
AllContents == [body : Bodies, ts : SentTimestamps]

\* what a producer sends: a JSON object, JSON that is no object, invalid JSON
Contents ==
    {[body |-> BodyFooBar, ts |-> 920399],
     [body |-> BodyList, ts |-> 1000],
     [body |-> BodyGarbage, ts |-> 1000]}

NoContent == [body |-> "", ts |-> 0]

ReceiptHandleOf(id) == <<"ReceiptHandle", id>>

\* the message object of a receive_message response
Message(id, c) ==
    [MessageId |-> id,
     ReceiptHandle |-> ReceiptHandleOf(id),
     Body |-> StrVal(c.body),
     Attributes |-> [SentTimestamp |-> c.ts]]

NoMsg == Message("", NoContent)

(* ------------------------------- state --------------------------------- *)

VARIABLES
    kwargs,           \* the keyword arguments the instance was constructed with
    variant,          \* class of the service: SQSSource or SQSJsonSource
    uri,              \* self.uri
    pollinterval,     \* self.pollinterval
    aws_region,       \* self.aws_region
    default_codebase, \* self.default_codebase
    timerStep,        \* the period of the TimerService made by startService
    services,         \* number of TimerService children attached to the service
    orphanLoops,      \* live loops that no attached timer refers to any more
    stopRaised,       \* the exception the last stopService call raised, or ""
    started,          \* the parent has called startService on this instance
    running,          \* Service.running of this service
    timerService,     \* self.timerService: "unset", "timer" or NONE
    loopRunning,      \* LoopingCall.running of the timer's loop
    callScheduled,    \* the loop holds a delayed call for its next interval
    deferred,         \* an interval elapsed while the loop's poll() was in flight
    polls,            \* the poll() invocations so far, in start order
    queue,            \* the SQS queue: per message id its state and content
    redelivered,      \* duplicate deliveries made by the provider so far
    changes           \* the rows of the master's changes table, in insert order

\* what construction sets and nothing changes afterwards
attrs == <<kwargs, variant, uri, pollinterval, aws_region, default_codebase>>

\* the service's children and the outcome of its last stopService call
children == <<services, orphanLoops, stopRaised>>

vars == <<attrs, children, timerStep, started, running, timerService, loopRunning,
          callScheduled, deferred, polls, queue, redelivered, changes>>

(* ----------------------- SQSSource: msg -> change ---------------------- *)

IsJson == variant = "SQSJsonSource"

\* json.loads(msg['Body']) raises
process_msg_raises(msg) == IsJson /\ json_invalid(msg.Body.s)

process_msg(msg) ==
    IF IsJson THEN [msg EXCEPT !.Body = json_loads(msg.Body.s)] ELSE msg

msg_project(msg) == NONE

msg_comment(msg) == "sqs"

msg_author(msg) == "sqs"

msg_revision(msg) == msg.MessageId

msg_timestamp_truncated(msg) ==
    [sec |-> msg.Attributes.SentTimestamp \div 1000, ms |-> 0]

\* int(SentTimestamp) / 1000, true division: seconds and the millisecond rest
msg_timestamp(msg) ==
    [sec |-> msg.Attributes.SentTimestamp \div 1000,
     ms |-> msg.Attributes.SentTimestamp % 1000]

msg_properties_never_raises(msg) == FALSE

\* {**msg['Body']} raises TypeError unless the body is a mapping
msg_properties_raises(msg) == IsJson /\ msg.Body.t # "dict"

msg_properties_sqs_body_wins(msg) ==
    IF IsJson
    THEN ("sqs_body" :> json_dumps(msg.Body)) @@ msg.Body.o
    ELSE [sqs_body |-> msg.Body.s]

msg_properties(msg) ==
    IF IsJson
    THEN msg.Body.o @@ ("sqs_body" :> json_dumps(msg.Body))
    ELSE [sqs_body |-> msg.Body.s]

msg_repository(msg) == uri

msg_branch(msg) == ""

msg_codebase(msg) == default_codebase

msg_to_change(msg) ==
    [src |-> "sqs",
     codebase |-> msg_codebase(msg),
     repository |-> msg_repository(msg),
     project |-> msg_project(msg),
     branch |-> msg_branch(msg),
     author |-> msg_author(msg),
     comments |-> msg_comment(msg),
     when_timestamp |-> msg_timestamp(msg),
     revision |-> msg_revision(msg),
     properties |-> msg_properties(msg)]

NoPayload ==
    [src |-> "", codebase |-> "", repository |-> "", project |-> "", branch |-> "",
     author |-> "", comments |-> "", when_timestamp |-> [sec |-> 0, ms |-> 0],
     revision |-> "", properties |-> NoFields]

\* rows of the changes table whose revision column equals revision
change_exists_any(revision) == changes # <<>>

get_change(revision) == {k \in 1..Len(changes) : changes[k].revision = revision}

change_exists(revision) == get_change(revision) # {}

(* --------------------------- one poll() cycle -------------------------- *)

\* the responses of receive_message and what the worker thread can raise
RespNoKey == [none |-> FALSE, hasMessages |-> FALSE, Messages |-> <<>>]

RespEmptyList == [none |-> FALSE, hasMessages |-> TRUE, Messages |-> <<>>]

RespNone == [none |-> TRUE, hasMessages |-> FALSE, Messages |-> <<>>]

RespWith(m) == [none |-> FALSE, hasMessages |-> TRUE, Messages |-> <<m>>]

\* a poll() invocation: where its deferred chain stands, the message it holds,
\* the calls it has made so far, and how it ended
NewPoll ==
    [poller |-> "this", pc |-> "receiving", recv |-> "", resp |-> RespNone, msg |-> NoMsg,
     payload |-> NoPayload, exists |-> "unknown",
     events |-> <<"receive_message">>, failedAt |-> "", raised |-> "",
     deleted |-> FALSE]

InFlightPcs == {"receiving", "lookup", "adding", "deleting"}

Called(c, what) == {k \in 1..Len(c.events) : c.events[k] = what}

\* an exception leaves poll(): its deferred fires with a failure
Raise(c, stage, exc) == [c EXCEPT !.pc = "failed", !.failedAt = stage, !.raised = exc]

\* poll() returns normally
Return(c) == [c EXCEPT !.pc = "done"]

\* what the worker thread's receive_message call did
Outcome(kind, resp) == [kind |-> kind, resp |-> resp]

\* _get_sqs_msg: the response, None after a logged CredentialRetrievalError,
\* or any other exception of the call passed on
get_sqs_msg(out) ==
    CASE out.kind = "response" ->
            [raised |-> "", logged |-> FALSE, resp |-> out.resp]
      [] out.kind = "CredentialRetrievalError" ->
            [raised |-> "", logged |-> TRUE, resp |-> RespNone]
      [] OTHER ->
            [raised |-> out.kind, logged |-> FALSE, resp |-> RespNone]

is_empty_always(resp) == TRUE

is_empty_keyonly(resp) == resp.none \/ ~resp.hasMessages

is_empty(resp) == resp.none \/ ~resp.hasMessages \/ Len(resp.Messages) = 0

\* delete_msg is entered: the reactor thread is inside sqs.delete_message
delete_msg(c) ==
    [c EXCEPT !.pc = "deleting", !.events = Append(@, "delete_message")]

\* the failure of a stage of handleMessage reaches poll() at its yield
pipeline_failed_swallowed(c, stage, exc) ==
    delete_msg([c EXCEPT !.failedAt = stage, !.raised = exc])

pipeline_failed(c, stage, exc) == Raise(c, stage, exc)

\* handleMessage up to the point where it hands the lookup to the db pool
handleMessage(c, msg) ==
    IF process_msg_raises(msg)
    THEN pipeline_failed([c EXCEPT !.msg = msg], "process_msg", "ValueError")
    ELSE LET m == process_msg(msg) IN
         IF msg_properties_raises(m)
         THEN pipeline_failed([c EXCEPT !.msg = m], "msg_to_change", "TypeError")
         ELSE [c EXCEPT !.msg = m,
                        !.payload = msg_to_change(m),
                        !.pc = "lookup",
                        !.events = Append(@, "change_exists")]

\* poll() once handleMessage's deferred has fired with a result
after_handleMessage(c) ==
    delete_msg([c EXCEPT !.events = Append(@, "handled")])

add_change_always(c, exists) ==
    [c EXCEPT !.exists = IF exists THEN "yes" ELSE "no",
              !.pc = "adding", !.events = Append(@, "addChange")]

add_change_never(c, exists) ==
    after_handleMessage([c EXCEPT !.exists = IF exists THEN "yes" ELSE "no"])

\* the add_change callback of handleMessage
add_change(c, exists) ==
    IF exists
    THEN after_handleMessage([c EXCEPT !.exists = "yes"])
    ELSE [c EXCEPT !.exists = "no", !.pc = "adding",
                   !.events = Append(@, "addChange")]

poll_without_yield(c, msg) ==
    IF msg = NoMsg
    THEN Return(c)
    ELSE LET h == handleMessage(c, msg) IN
         IF h.pc = "failed" THEN h
         ELSE [h EXCEPT !.events = Append(@, "delete_message")]

\* poll() from the result of sqs_poll to its yield on handleMessage
poll(c, msg) ==
    IF msg = NoMsg THEN Return(c) ELSE handleMessage(c, msg)

\* sqs_poll and the start of poll() once the worker thread has answered
sqs_poll(c, out) ==
    LET r == get_sqs_msg(out)
        c0 == [c EXCEPT !.recv = out.kind, !.resp = r.resp]
        c1 == IF r.logged THEN [c0 EXCEPT !.events = Append(@, "log.error")] ELSE c0
    IN  CASE r.raised # "" -> Raise(c1, "receive", r.raised)
          [] r.raised = "" /\ is_empty(r.resp) -> poll(c1, NoMsg)
          [] r.raised = "" /\ ~is_empty(r.resp) /\ r.resp.none ->
                Raise(c1, "sqs_poll", "TypeError")
          [] r.raised = "" /\ ~is_empty(r.resp) /\ ~r.resp.none
                /\ Len(r.resp.Messages) = 0 -> Raise(c1, "sqs_poll", "IndexError")
          [] OTHER -> poll(c1, r.resp.Messages[1])

(* ------------------------------ the queue ------------------------------ *)

Visible == {id \in MessageIds : queue[id].state = "visible"}

\* what one receive_message call can come back with
ProviderOutcomes ==
    {Outcome("response", RespNoKey),
     Outcome("response", RespEmptyList),
     Outcome("CredentialRetrievalError", RespNone),
     Outcome("ClientError", RespNone)}
    \cup {Outcome("response", RespWith(Message(id, queue[id].content))) : id \in Visible}

Delivered(out) ==
    IF out.kind = "response" /\ Len(out.resp.Messages) > 0
    THEN {out.resp.Messages[1].MessageId}
    ELSE {}

\* a producer sends a message; the provider hands out its ids in order
Send(k, content) ==
    /\ queue[IdNames[k]].state = "unsent"
    /\ k > 1 => queue[IdNames[k - 1]].state # "unsent"
    /\ queue' = [queue EXCEPT ![IdNames[k]] = [state |-> "visible", content |-> content]]
    /\ UNCHANGED <<attrs, children, timerStep, started, running, timerService,
                   loopRunning, callScheduled, deferred, polls, redelivered, changes>>

\* a received message that was not deleted becomes visible again
VisibilityTimeout(id) ==
    /\ queue[id].state = "inflight"
    /\ queue' = [queue EXCEPT ![id].state = "visible"]
    /\ UNCHANGED <<attrs, children, timerStep, started, running, timerService,
                   loopRunning, callScheduled, deferred, polls, redelivered, changes>>

\* at-least-once delivery: the provider hands out a deleted message once more
Redeliver(id) ==
    /\ queue[id].state = "deleted"
    /\ redelivered < MaxRedeliver
    /\ redelivered' = redelivered + 1
    /\ queue' = [queue EXCEPT ![id].state = "visible"]
    /\ UNCHANGED <<attrs, children, timerStep, started, running, timerService,
                   loopRunning, callScheduled, deferred, polls, changes>>

(* ------------------------- timer and lifecycle ------------------------- *)

\* the thread a blocking call of poll() runs on: receive_message goes through
\* deferToThread, the lookup through db.pool.do, delete_msg is called directly
RunsOn(call) ==
    CASE call = "receive_message" -> "worker thread"
      [] call = "change_exists"   -> "db pool thread"
      [] call = "delete_message"  -> "reactor thread"

\* the blocking call a cycle at pc is inside
BlockingCall(pc) ==
    CASE pc = "receiving" -> "receive_message"
      [] pc = "lookup"    -> "change_exists"
      [] pc = "deleting"  -> "delete_message"

\* the reactor thread is blocked inside a delete_message call
ReactorBusy == \E i \in 1..Len(polls) : polls[i].pc = "deleting"

TimerMayFire_fixed_rate == TRUE

\* the loop calls poll() again only from the delayed call it schedules when
\* the deferred of the previous poll() has fired
TimerMayFire == callScheduled

\* the deferred of poll() fires: the loop reschedules, or stops on a failure
LoopAfter(c) ==
    CASE c.poller = "this" /\ c.pc = "done"   -> /\ callScheduled' = loopRunning
                                                /\ UNCHANGED loopRunning
      [] c.poller = "this" /\ c.pc = "failed" -> /\ loopRunning' = FALSE
                                                /\ callScheduled' = FALSE
      [] OTHER -> UNCHANGED <<loopRunning, callScheduled>>

startService ==
    /\ ~started
    /\ started' = TRUE
    /\ timerService' = "timer"
    /\ running' = TRUE
    /\ loopRunning' = TRUE
    /\ callScheduled' = FALSE
    /\ timerStep' = pollinterval
    /\ polls' = Append(polls, NewPoll)
    /\ services' = services + 1
    /\ UNCHANGED <<attrs, orphanLoops, stopRaised, deferred, queue, redelivered,
                   changes>>

stopService ==
    /\ running
    /\ ~ReactorBusy
    /\ timerService' = NONE
    /\ running' = FALSE
    /\ loopRunning' = FALSE
    /\ callScheduled' = FALSE
    /\ services' = services - 1
    /\ UNCHANGED <<attrs, orphanLoops, stopRaised, timerStep, started, deferred,
                   polls, queue, redelivered, changes>>

\* the timer's delayed call runs poll()
TimerFires ==
    /\ loopRunning
    /\ TimerMayFire
    /\ ~ReactorBusy
    /\ Len(polls) < MaxPolls
    /\ polls' = Append(polls, NewPoll)
    /\ callScheduled' = FALSE
    /\ deferred' = FALSE
    /\ UNCHANGED <<attrs, children, timerStep, started, running, timerService,
                   loopRunning, queue, redelivered, changes>>

\* an interval ends while poll() is in flight: nothing is called
TickDeferred ==
    /\ loopRunning
    /\ ~TimerMayFire
    /\ ~deferred
    /\ deferred' = TRUE
    /\ UNCHANGED <<attrs, children, timerStep, started, running, timerService,
                   loopRunning, callScheduled, polls, queue, redelivered, changes>>

\* a second source of the same master, configured with the same queue, runs
\* its own poll(): its timer keeps one poll in flight and stops on a failure
OtherSourcePolls ==
    /\ ~ReactorBusy
    /\ Len(polls) < MaxPolls
    /\ \A i \in 1..Len(polls) : polls[i].poller = "other" => polls[i].pc = "done"
    /\ polls' = Append(polls, [NewPoll EXCEPT !.poller = "other"])
    /\ UNCHANGED <<attrs, children, timerStep, started, running, timerService, loopRunning,
                   callScheduled, deferred, queue, redelivered, changes>>

(* ------------- startService and stopService in any order --------------- *)

\* attached timers that self.timerService does not refer to
LeakedTimers == services - (IF timerService = "timer" THEN 1 ELSE 0)

\* live loops other than the loop of self.timerService: the orphaned ones and,
\* while the service runs, the loop of every leaked timer (a leaked timer is
\* started and stopped with the service; its loop is taken to be alive)
OldLoops == orphanLoops + (IF running THEN LeakedTimers ELSE 0)

\* the poll() calls of the loop self.timerService had before this startService
Disowned(ps) ==
    [i \in 1..Len(ps) |->
        IF ps[i].poller = "this" THEN [ps[i] EXCEPT !.poller = "old"] ELSE ps[i]]

\* n poll() calls made at once by loops that start with now=True
FirstCalls(n) == [k \in 1..n |-> [NewPoll EXCEPT !.poller = "old"]]

\* startService in any state. It makes and attaches a new timer whatever
\* self.timerService holds. Stopped service: the parent's startService starts
\* every child, the leaked timers and the new one. Running service: attaching
\* starts the new timer at once, then the parent's startService starts every
\* child once more; a timer started twice drops its loop without stopping it.
startServiceCalled ==
    LET firstCalls == IF running THEN services + 2 ELSE services + 1
        orphaned == IF running
                    THEN LeakedTimers + 1 + (IF loopRunning THEN 1 ELSE 0)
                    ELSE 0
    IN  /\ ~ReactorBusy
        /\ Len(polls) + firstCalls <= MaxLifecyclePolls
        /\ timerService' = "timer"
        /\ timerStep' = pollinterval
        /\ services' = services + 1
        /\ orphanLoops' = orphanLoops + orphaned
        /\ stopRaised' = ""
        /\ started' = TRUE
        /\ running' = TRUE
        /\ loopRunning' = TRUE
        /\ callScheduled' = FALSE
        /\ deferred' = FALSE
        /\ polls' = Disowned(polls) \o FirstCalls(firstCalls - 1) \o <<NewPoll>>
        /\ UNCHANGED <<attrs, queue, redelivered, changes>>

stopServiceCalled_keeps_timer ==
    /\ timerService = "timer"
    /\ ~ReactorBusy
    /\ services' = services - 1
    /\ stopRaised' = ""
    /\ running' = FALSE
    /\ loopRunning' = FALSE
    /\ callScheduled' = FALSE
    /\ UNCHANGED <<attrs, timerService, orphanLoops, timerStep, started, deferred,
                   polls, queue, redelivered, changes>>

\* stopService while self.timerService is a timer: that timer is detached and
\* its loop stopped, the reference is cleared, and the parent's stopService
\* stops the loop each leaked timer refers to; orphaned loops go on
stopServiceCalled ==
    /\ timerService = "timer"
    /\ ~ReactorBusy
    /\ timerService' = NONE
    /\ services' = services - 1
    /\ stopRaised' = ""
    /\ running' = FALSE
    /\ loopRunning' = FALSE
    /\ callScheduled' = FALSE
    /\ UNCHANGED <<attrs, orphanLoops, timerStep, started, deferred, polls, queue,
                   redelivered, changes>>

\* stopService while self.timerService is unset or None: the first statement
\* raises AttributeError and nothing else happens
stopServiceRaises ==
    /\ timerService # "timer"
    /\ ~ReactorBusy
    /\ stopRaised = ""
    /\ stopRaised' = "AttributeError"
    /\ UNCHANGED <<attrs, services, orphanLoops, timerStep, started, running,
                   timerService, loopRunning, callScheduled, deferred, polls, queue,
                   redelivered, changes>>

\* a loop other than the one of self.timerService calls poll(): each loop
\* keeps one poll() in flight
OldLoopFires ==
    /\ ~ReactorBusy
    /\ Len(polls) < MaxLifecyclePolls
    /\ Cardinality({i \in 1..Len(polls) :
            polls[i].poller = "old" /\ polls[i].pc \in InFlightPcs}) < OldLoops
    /\ polls' = Append(polls, [NewPoll EXCEPT !.poller = "old"])
    /\ UNCHANGED <<attrs, children, timerStep, started, running, timerService,
                   loopRunning, callScheduled, deferred, queue, redelivered, changes>>

(* --------------------- the steps of a poll() cycle --------------------- *)

\* the worker thread's receive_message call comes back
ReceiveDone(i, out) ==
    /\ polls[i].pc = "receiving"
    /\ ~ReactorBusy
    /\ LET c == sqs_poll(polls[i], out) IN
        /\ polls' = [polls EXCEPT ![i] = c]
        /\ LoopAfter(c)
    /\ queue' = [id \in MessageIds |->
                    IF id \in Delivered(out)
                    THEN [queue[id] EXCEPT !.state = "inflight"]
                    ELSE queue[id]]
    /\ UNCHANGED <<attrs, children, timerStep, started, running, timerService,
                   deferred, redelivered, changes>>

\* the db pool's change_exists lookup comes back
LookupDone(i, ok) ==
    /\ polls[i].pc = "lookup"
    /\ ~ReactorBusy
    /\ LET c == IF ok
                THEN add_change(polls[i], change_exists(polls[i].payload.revision))
                ELSE pipeline_failed(polls[i], "change_exists", "SinkUnavailable")
       IN /\ polls' = [polls EXCEPT ![i] = c]
          /\ LoopAfter(c)
    /\ UNCHANGED <<attrs, children, timerStep, started, running, timerService,
                   deferred, queue, redelivered, changes>>

\* addChange comes back
AddDone(i, ok) ==
    /\ polls[i].pc = "adding"
    /\ ~ReactorBusy
    /\ LET c == IF ok
                THEN after_handleMessage(polls[i])
                ELSE pipeline_failed(polls[i], "addChange", "SinkUnavailable")
       IN /\ polls' = [polls EXCEPT ![i] = c]
          /\ LoopAfter(c)
    /\ changes' = IF ok THEN Append(changes, polls[i].payload) ELSE changes
    /\ UNCHANGED <<attrs, children, timerStep, started, running, timerService,
                   deferred, queue, redelivered>>

\* delete_message comes back
DeleteDone(i, ok) ==
    /\ polls[i].pc = "deleting"
    /\ LET c == IF ok
                THEN Return([polls[i] EXCEPT !.deleted = TRUE])
                ELSE Raise(polls[i], "delete_msg", "ClientError")
       IN /\ polls' = [polls EXCEPT ![i] = c]
          /\ LoopAfter(c)
    /\ queue' = [id \in MessageIds |->
                    IF ok /\ ReceiptHandleOf(id) = polls[i].msg.ReceiptHandle
                          /\ queue[id].state \in {"visible", "inflight"}
                    THEN [queue[id] EXCEPT !.state = "deleted"]
                    ELSE queue[id]]
    /\ UNCHANGED <<attrs, children, timerStep, started, running, timerService,
                   deferred, redelivered, changes>>

(* ---------------------------- specification ---------------------------- *)

Init ==
    /\ variant \in Variants
    /\ kwargs \in HostKwargs
    /\ uri = SQSPollingService(kwargs).uri
    /\ pollinterval = SQSPollingService(kwargs).pollinterval
    /\ aws_region = SQSPollingService(kwargs).aws_region
    /\ default_codebase = SQSPollingService(kwargs).default_codebase
    /\ timerStep = 0
    /\ services = 0
    /\ orphanLoops = 0
    /\ stopRaised = ""
    /\ started = FALSE
    /\ running = FALSE
    /\ timerService = "unset"
    /\ loopRunning = FALSE
    /\ callScheduled = FALSE
    /\ deferred = FALSE
    /\ polls = <<>>
    /\ queue = [id \in MessageIds |-> [state |-> "unsent", content |-> NoContent]]
    /\ redelivered = 0
    /\ changes = <<>>

Next ==
    \/ startService
    \/ stopService
    \/ TimerFires
    \/ TickDeferred
    \/ \E k \in 1..MaxMsgs : \E content \in Contents : Send(k, content)
    \/ \E id \in MessageIds : VisibilityTimeout(id)
    \/ \E id \in MessageIds : Redeliver(id)
    \/ \E i \in 1..Len(polls) : \E out \in ProviderOutcomes : ReceiveDone(i, out)
    \/ \E i \in 1..Len(polls) : \E ok \in BOOLEAN : LookupDone(i, ok)
    \/ \E i \in 1..Len(polls) : \E ok \in BOOLEAN : AddDone(i, ok)
    \/ \E i \in 1..Len(polls) : \E ok \in BOOLEAN : DeleteDone(i, ok)

Spec == Init /\ [][Next]_vars

\* two sources on one queue and one changes table
\* both sources are up, this one's first receive is pending, and one message
\* is on the queue
InitRace ==
    /\ variant \in Variants
    /\ kwargs \in HostKwargs
    /\ uri = SQSPollingService(kwargs).uri
    /\ pollinterval = SQSPollingService(kwargs).pollinterval
    /\ aws_region = SQSPollingService(kwargs).aws_region
    /\ default_codebase = SQSPollingService(kwargs).default_codebase
    /\ timerStep = pollinterval
    /\ services = 1
    /\ orphanLoops = 0
    /\ stopRaised = ""
    /\ started = TRUE
    /\ running = TRUE
    /\ timerService = "timer"
    /\ loopRunning = TRUE
    /\ callScheduled = FALSE
    /\ deferred = FALSE
    /\ polls = <<NewPoll>>
    /\ \E content \in Contents :
          queue = [id \in MessageIds |->
                      IF id = IdNames[1]
                      THEN [state |-> "visible", content |-> content]
                      ELSE [state |-> "unsent", content |-> NoContent]]
    /\ redelivered = 0
    /\ changes = <<>>

NextRace ==
    \/ OtherSourcePolls
    \/ TimerFires
    \/ \E id \in MessageIds : VisibilityTimeout(id)
    \/ \E i \in 1..Len(polls) : \E out \in ProviderOutcomes : ReceiveDone(i, out)
    \/ \E i \in 1..Len(polls) : \E ok \in BOOLEAN : LookupDone(i, ok)
    \/ \E i \in 1..Len(polls) : \E ok \in BOOLEAN : AddDone(i, ok)
    \/ \E i \in 1..Len(polls) : \E ok \in BOOLEAN : DeleteDone(i, ok)

SpecRace == InitRace /\ [][NextRace]_vars

\* startService and stopService called in any order on a constructed service
NextLifecycle ==
    \/ startServiceCalled
    \/ stopServiceCalled
    \/ stopServiceRaises
    \/ TimerFires
    \/ TickDeferred
    \/ OldLoopFires
    \/ \E i \in 1..Len(polls) : \E out \in ProviderOutcomes : ReceiveDone(i, out)

\* the lifecycle does not depend on the class or the codebase: one of each
InitLifecycle == Init /\ variant = "SQSSource" /\ DOMAIN kwargs = {"uri"}

SpecLifecycle == InitLifecycle /\ [][NextLifecycle]_vars

\* construction and the start of the timer, over every constructor call
InitConfig ==
    /\ variant \in Variants
    /\ kwargs \in AllKwargs
    /\ uri = SQSPollingService(kwargs).uri
    /\ pollinterval = SQSPollingService(kwargs).pollinterval
    /\ aws_region = SQSPollingService(kwargs).aws_region
    /\ default_codebase = SQSPollingService(kwargs).default_codebase
    /\ timerStep = 0
    /\ services = 0
    /\ orphanLoops = 0
    /\ stopRaised = ""
    /\ started = FALSE
    /\ running = FALSE
    /\ timerService = "unset"
    /\ loopRunning = FALSE
    /\ callScheduled = FALSE
    /\ deferred = FALSE
    /\ polls = <<>>
    /\ queue = [id \in MessageIds |-> [state |-> "unsent", content |-> NoContent]]
    /\ redelivered = 0
    /\ changes = <<>>

NextConfig == startService \/ stopService

SpecConfig == InitConfig /\ [][NextConfig]_vars

\* msg_to_change as a function of its inputs: a started service whose first
\* receive is pending, with one message of any content on the queue
InitChange ==
    /\ variant \in Variants
    /\ kwargs \in ChangeKwargs
    /\ uri = SQSPollingService(kwargs).uri
    /\ pollinterval = SQSPollingService(kwargs).pollinterval
    /\ aws_region = SQSPollingService(kwargs).aws_region
    /\ default_codebase = SQSPollingService(kwargs).default_codebase
    /\ timerStep = pollinterval
    /\ services = 1
    /\ orphanLoops = 0
    /\ stopRaised = ""
    /\ started = TRUE
    /\ running = TRUE
    /\ timerService = "timer"
    /\ loopRunning = TRUE
    /\ callScheduled = FALSE
    /\ deferred = FALSE
    /\ polls = <<NewPoll>>
    /\ \E content \in AllContents :
          queue = [id \in MessageIds |->
                      IF id = IdNames[1]
                      THEN [state |-> "visible", content |-> content]
                      ELSE [state |-> "unsent", content |-> NoContent]]
    /\ redelivered = 0
    /\ changes = <<>>

NextChange == \E out \in ProviderOutcomes : ReceiveDone(1, out)

SpecChange == InitChange /\ [][NextChange]_vars

(* ------------------------------ properties ----------------------------- *)

Polls == 1..Len(polls)

Ended(c) == c.pc \in {"done", "failed"}

PipelineStages == {"process_msg", "msg_to_change", "change_exists", "addChange"}

SinkAndDeleteCalls == {"change_exists", "addChange", "handled", "delete_message"}

\* the calls of a cycle that touch the sink or delete from the queue
SideEffects(c) == SelectSeq(c.events, LAMBDA e : e \in SinkAndDeleteCalls)

\* C1: in every poll cycle whose handleMessage result has fired without error,
\* delete_msg is called exactly once, directly after that result; delete_msg is
\* never called before it, so never while the lookup or addChange is pending.
C1_DeleteOnceAfterHandled ==
    \A i \in Polls :
        LET c == polls[i] IN
        /\ Called(c, "handled") # {} => Cardinality(Called(c, "delete_message")) = 1
        /\ \A k \in Called(c, "delete_message") : k > 1 /\ c.events[k - 1] = "handled"
        /\ c.pc \in {"receiving", "lookup", "adding"} => Called(c, "delete_message") = {}
        /\ Called(c, "handled") # {} =>
              \/ c.exists = "yes"
              \/ \E k \in get_change(c.payload.revision) : changes[k] = c.payload

\* a cycle recorded a new change and is inside its delete_message call
C1_Witness ==
    \E i \in Polls :
        /\ polls[i].pc = "deleting"
        /\ polls[i].exists = "no"
        /\ Called(polls[i], "addChange") # {}
        /\ Called(polls[i], "handled") # {}

\* C2: a cycle in which process_msg / msg_to_change raised, or the lookup or
\* addChange failed, never calls delete_msg, and its message stays on the queue.
C2_NoDeleteOnPipelineFailure ==
    \A i \in Polls :
        LET c == polls[i] IN
        c.failedAt \in PipelineStages =>
            /\ Called(c, "delete_message") = {}
            /\ ~c.deleted
            /\ c.pc = "failed"
            /\ queue[c.msg.MessageId].state \in {"visible", "inflight"}

\* a cycle received a message and its addChange failed
C2_Witness ==
    \E i \in Polls :
        /\ polls[i].failedAt = "addChange"
        /\ polls[i].msg # NoMsg

\* C3 as stated: at the end of a cycle its message has been deleted if and only
\* if the pipeline succeeded, even in cycles where the delete call fails.
C3_DeletedIffProcessed ==
    \A i \in Polls :
        LET c == polls[i] IN
        (Ended(c) /\ c.msg # NoMsg) =>
            /\ c.deleted <=> Called(c, "handled") # {}
            /\ c.deleted => change_exists(c.msg.MessageId)

\* C3 amended: at the end of a cycle its message has been deleted only if its
\* change was emitted or its revision was confirmed recorded (so the revision is
\* in the sink), and a message whose pipeline succeeded has been deleted unless
\* the delete call itself failed.
C3_DeletedOnlyIfProcessed ==
    \A i \in Polls :
        LET c == polls[i] IN
        (Ended(c) /\ c.msg # NoMsg) =>
            /\ c.deleted => Called(c, "handled") # {}
            /\ c.deleted => change_exists(c.msg.MessageId)
            /\ (Called(c, "handled") # {} /\ c.failedAt # "delete_msg") => c.deleted
            /\ c.failedAt = "delete_msg" => ~c.deleted

\* a cycle emitted its change and deleted its message
C3_Witness ==
    \E i \in Polls :
        /\ polls[i].pc = "done"
        /\ polls[i].deleted
        /\ polls[i].exists = "no"
        /\ change_exists(polls[i].msg.MessageId)

\* C4: no revision is ever recorded twice; a cycle whose lookup finds the
\* revision recorded does not call addChange and still calls delete_msg.
C4_AtMostOneChangePerRevision ==
    /\ \A r \in MessageIds : Cardinality(get_change(r)) <= 1
    /\ \A i \in Polls :
          LET c == polls[i] IN
          c.exists = "yes" =>
              /\ Called(c, "addChange") = {}
              /\ Called(c, "delete_message") # {}

\* the same MessageId went through two cycles, both called delete_msg, the
\* second found the revision recorded
C4_Witness ==
    \E i \in Polls : \E j \in Polls :
        /\ i < j
        /\ polls[i].msg # NoMsg
        /\ polls[i].msg.MessageId = polls[j].msg.MessageId
        /\ polls[i].exists = "no"
        /\ polls[i].deleted
        /\ polls[j].exists = "yes"
        /\ polls[j].deleted
        /\ Cardinality(get_change(polls[j].msg.MessageId)) = 1

\* C5 as stated: a cycle whose receive call raised a credential retrieval error
\* or a generic client error ends normally, having logged one error and made no
\* sink or delete call.
C5_TransientReceiveErrorAbsorbed ==
    \A i \in Polls :
        LET c == polls[i] IN
        c.recv \in {"CredentialRetrievalError", "ClientError"} =>
            /\ c.pc = "done"
            /\ c.events = <<"receive_message", "log.error">>

\* C6: a cycle whose response is None, has no Messages key or has an empty
\* Messages list ends normally without handleMessage, lookup, addChange or
\* delete_msg.
C6_EmptyPollDoesNothing ==
    \A i \in Polls :
        LET c == polls[i] IN
        (c.recv \in {"response", "CredentialRetrievalError"}
            /\ (c.resp.none \/ ~c.resp.hasMessages \/ c.resp.Messages = <<>>)) =>
            /\ c.pc = "done"
            /\ c.msg = NoMsg
            /\ c.payload = NoPayload
            /\ SideEffects(c) = <<>>
            /\ ~c.deleted

\* a cycle got a response whose Messages list is empty
C6_Witness ==
    \E i \in Polls :
        /\ polls[i].recv = "response"
        /\ polls[i].resp = RespEmptyList
        /\ polls[i].pc = "done"

C8_NoSideEffectsAfterStop ==
    [][(started /\ ~running) =>
          /\ Len(polls') = Len(polls)
          /\ \A i \in Polls : SideEffects(polls'[i]) = SideEffects(polls[i])]_vars

\* C9 as stated: a failed lookup or addChange does not end the polling loop:
\* while the service is running the timer keeps calling poll().
C9_SinkFailureKeepsPolling ==
    \A i \in Polls :
        (polls[i].failedAt \in {"change_exists", "addChange"} /\ running) => loopRunning

\* C10: every change built by msg_to_change has src 'sqs', revision MessageId,
\* repository the queue uri, codebase the configured default, project None,
\* branch '', author and comments 'sqs', when_timestamp exactly
\* SentTimestamp / 1000; in the raw variant properties is {'sqs_body': Body}.
C10_ChangeFields ==
    \A i \in Polls :
        LET c == polls[i]
            sent == queue[c.msg.MessageId].content
        IN  c.payload # NoPayload =>
            /\ c.payload.src = "sqs"
            /\ c.payload.revision = c.msg.MessageId
            /\ c.payload.repository = kwargs["uri"]
            /\ c.payload.codebase = default_codebase
            /\ c.payload.project = NONE
            /\ c.payload.branch = ""
            /\ c.payload.author = "sqs"
            /\ c.payload.comments = "sqs"
            /\ c.payload.when_timestamp.ms \in 0..999
            /\ c.payload.when_timestamp.sec * 1000 + c.payload.when_timestamp.ms = sent.ts
            /\ ~IsJson => c.payload.properties = [sqs_body |-> sent.body]

\* the raw variant built the change of a message sent at 920399 ms
C10_Witness ==
    /\ ~IsJson
    /\ default_codebase = "cb"
    /\ \E i \in Polls :
          /\ polls[i].pc = "lookup"
          /\ polls[i].payload.when_timestamp = [sec |-> 920, ms |-> 399]
          /\ polls[i].payload.properties = [sqs_body |-> BodyFooBarCompact]
          /\ polls[i].payload.codebase = "cb"

\* the body of cycle c's message as the producer sent it
SentBody(c) == queue[c.msg.MessageId].content.body

C11_ReserializedReached ==
    /\ IsJson
    /\ \E i \in Polls :
          /\ polls[i].msg # NoMsg
          /\ SentBody(polls[i]) = BodyFooBarCompact
          /\ polls[i].payload.properties = [foo |-> "bar", sqs_body |-> BodyFooBar]

\* C12: in the JSON variant a body that is not valid JSON, or is JSON but no
\* object, fails the cycle before any sink call: no lookup, no addChange, no
\* change recorded, the error leaves poll(), the message is not deleted.
C12_MalformedFailsBeforeSink ==
    \A i \in Polls :
        LET c == polls[i] IN
        (IsJson /\ c.msg # NoMsg
            /\ (json_invalid(SentBody(c)) \/ json_loads(SentBody(c)).t # "dict")) =>
            /\ c.pc = "failed"
            /\ c.failedAt \in {"process_msg", "msg_to_change"}
            /\ c.raised \in {"ValueError", "TypeError"}
            /\ SideEffects(c) = <<>>
            /\ c.payload = NoPayload
            /\ ~change_exists(c.msg.MessageId)
            /\ queue[c.msg.MessageId].state \in {"visible", "inflight"}

\* JSON null reached msg_to_change and failed there
C12_Witness ==
    /\ IsJson
    /\ \E i \in Polls :
          /\ polls[i].msg # NoMsg
          /\ SentBody(polls[i]) = BodyNull
          /\ polls[i].failedAt = "msg_to_change"
          /\ polls[i].pc = "failed"

\* C14 as stated: the properties of a change built by SQSJsonSource are the
\* deserialized object's keys, with no sqs_body entry added by the source.
C14_JsonNoSqsBody ==
    \A i \in Polls :
        LET c == polls[i] IN
        (IsJson /\ c.payload # NoPayload) =>
            DOMAIN c.payload.properties = DOMAIN json_loads(SentBody(c)).o

\* C13: each sqs_poll yields at most one message: the first message of the
\* response, with id, receipt handle, body and attributes as enqueued; every
\* other message of the queue stays as it was, and sqs_poll deletes nothing.
C13_OneMessagePerPoll ==
    [][\A i \in Polls :
        (polls[i].pc = "receiving" /\ polls'[i].pc # "receiving") =>
            LET c == polls'[i]
                got == c.resp.Messages
            IN  /\ Len(got) <= 1
                /\ Called(c, "delete_message") = {}
                /\ \A id \in MessageIds :
                      /\ queue'[id].content = queue[id].content
                      /\ queue'[id].state = "deleted" => queue[id].state = "deleted"
                /\ got = <<>> => (c.msg = NoMsg /\ queue' = queue)
                /\ got # <<>> =>
                      LET m == got[1] IN
                      /\ queue[m.MessageId].state = "visible"
                      /\ m = Message(m.MessageId, queue[m.MessageId].content)
                      /\ m.Body = StrVal(queue[m.MessageId].content.body)
                      /\ c.msg.MessageId = m.MessageId
                      /\ c.msg.ReceiptHandle = m.ReceiptHandle
                      /\ c.msg.Attributes = m.Attributes
                      /\ queue'[m.MessageId].state = "inflight"
                      /\ \A id \in MessageIds \ {m.MessageId} : queue'[id] = queue[id]
      ]_vars

\* a poll took the first message while a second one stays available
C13_Witness ==
    \E i \in Polls :
        /\ polls[i].pc = "lookup"
        /\ polls[i].msg.MessageId = IdNames[1]
        /\ queue[IdNames[2]].state = "visible"

\* C16: addChange for a revision is called only after the change_exists lookup
\* on exactly that revision has come back, in the same cycle, with 'not
\* present'; never when it said 'present', never before it has come back.
C16_AddOnlyAfterAbsentLookup ==
    \A i \in Polls :
        LET c == polls[i]
            adds == Called(c, "addChange")
            lookups == Called(c, "change_exists")
        IN  /\ adds # {} =>
                /\ Cardinality(adds) = 1
                /\ c.exists = "no"
                /\ c.payload.revision = c.msg.MessageId
                /\ \E l \in lookups : \A a \in adds : l < a
            /\ c.exists \in {"unknown", "yes"} => adds = {}
            /\ c.exists = "yes" =>
                \E k \in 1..Len(changes) : changes[k].revision = c.payload.revision
            /\ (c.exists = "no" /\ c.pc = "adding") =>
                \A k \in 1..Len(changes) : changes[k].revision # c.payload.revision

\* addChange is pending for a revision while another revision is recorded
C16_Witness ==
    \E i \in Polls :
        /\ polls[i].pc = "adding"
        /\ polls[i].exists = "no"
        /\ changes # <<>>

\* C18 as stated: every blocking call of a cycle, the receive, the history
\* lookup and the delete, runs on a worker thread, never on the reactor thread.
C18_NoBlockingCallOnReactor ==
    \A i \in Polls :
        polls[i].pc \in {"receiving", "lookup", "deleting"} =>
            RunsOn(BlockingCall(polls[i].pc)) # "reactor thread"

\* C19 as stated: a failed delete does not surface as a failure of poll() and
\* does not stop later polls.
C19_DeleteFailureNotEscalated ==
    \A i \in Polls :
        LET c == polls[i] IN
        (Called(c, "delete_message") # {} /\ Ended(c) /\ ~c.deleted) =>
            /\ c.pc = "done"
            /\ running => loopRunning

\* C20 as stated: in both variants the message handed to delete_msg has the
\* MessageId, ReceiptHandle, Body and Attributes that sqs_poll returned.
C20_MessageNotMutated ==
    \A i \in Polls :
        LET c == polls[i] IN
        Called(c, "delete_message") # {} => c.msg = c.resp.Messages[1]

\* C15: construction stores the configuration unchanged: the uri as given,
\* pollinterval as given or 60, aws_region as given or 'eu-central-1',
\* default_codebase as given or None; the timer made by startService has
\* exactly that pollinterval as its period.
C15_ConfigStored ==
    /\ uri = kwargs["uri"]
    /\ "pollinterval" \in DOMAIN kwargs => pollinterval = kwargs["pollinterval"]
    /\ "pollinterval" \notin DOMAIN kwargs => pollinterval = 60
    /\ "aws_region" \in DOMAIN kwargs => aws_region = kwargs["aws_region"]
    /\ "aws_region" \notin DOMAIN kwargs => aws_region = "eu-central-1"
    /\ "codebase" \in DOMAIN kwargs => default_codebase = kwargs["codebase"]
    /\ "codebase" \notin DOMAIN kwargs => default_codebase = NONE
    /\ started =>
          /\ "pollinterval" \in DOMAIN kwargs => timerStep = kwargs["pollinterval"]
          /\ "pollinterval" \notin DOMAIN kwargs => timerStep = 60

\* a started service that was given every argument
C15_Witness ==
    /\ DOMAIN kwargs = {"uri", "pollinterval", "aws_region", "codebase"}
    /\ kwargs["pollinterval"] = 3600
    /\ timerService = "timer"
    /\ timerStep = 3600
    /\ aws_region = "kuiper-central-1"
    /\ uri = OtherUri

\* a started service that was given the uri alone
C15_DefaultsReached ==
    /\ DOMAIN kwargs = {"uri"}
    /\ timerService = "timer"
    /\ timerStep = 60
    /\ aws_region = "eu-central-1"
    /\ default_codebase = NONE

\* the cycles that called addChange for revision r after a 'not present' lookup
AddedAfterAbsent(r) ==
    {i \in Polls : /\ polls[i].msg.MessageId = r
                   /\ polls[i].exists = "no"
                   /\ Called(polls[i], "addChange") # {}}

\* C17: the lookup and addChange are not one atomic step: with two sources on
\* one sink a revision gets two changes when both lookups say 'not present'
\* before either addChange lands; a revision never has more changes than
\* cycles that looked it up as absent, and two changes always come from
\* cycles of different sources, never from one source polling alone.
C17_DuplicateOnlyByRace ==
    \A r \in MessageIds :
        /\ Cardinality(get_change(r)) <= Cardinality(AddedAfterAbsent(r))
        /\ Cardinality(get_change(r)) >= 2 =>
              \E i \in AddedAfterAbsent(r) : \E j \in AddedAfterAbsent(r) :
                  polls[i].poller # polls[j].poller

\* both sources looked the revision up as absent and both changes were added
C17_Witness ==
    \E r \in MessageIds :
        /\ Cardinality(get_change(r)) = 2
        /\ \E i \in AddedAfterAbsent(r) : \E j \in AddedAfterAbsent(r) :
              polls[i].poller = "this" /\ polls[j].poller = "other"

\* the poll() calls that have not come back
InFlight == {i \in Polls : polls[i].pc \in InFlightPcs}

\* C21: over any sequence of startService and stopService calls the service
\* refers to exactly one timer while it runs and to none while it is stopped;
\* stopService without a timer (before any start, or twice in a row) raises
\* and changes nothing; every startService attaches one more timer, so a
\* start without a stop in between leaves the earlier timer attached.
C21_Lifecycle ==
    /\ running => timerService = "timer"
    /\ ~running => timerService \in {"unset", NONE}
    /\ timerService = "unset" <=> ~started
    /\ stopRaised = "AttributeError" => (~running /\ timerService \in {"unset", NONE})
    /\ services >= (IF running THEN 1 ELSE 0)
    /\ (running /\ services = 1) => \A i \in InFlight : \A j \in InFlight :
          (polls[i].poller = "this" /\ polls[j].poller = "this") => i = j

\* a second startService without a stop: two timers are attached and a poll of
\* the earlier timer's loop overlaps a poll of the new one
C21_Witness ==
    /\ running
    /\ services = 2
    /\ orphanLoops > 0
    /\ \E i \in InFlight : \E j \in InFlight :
          polls[i].poller = "old" /\ polls[j].poller = "this"

\* stopService was called before any startService and raised
C21_StopBeforeStartRaised == stopRaised = "AttributeError" /\ ~started

\* stopService was called a second time without a start in between and raised
C21_SecondStopRaised ==
    stopRaised = "AttributeError" /\ started /\ timerService = NONE

====
